---- MODULE Spec2Model ----
(***************************************************************************)
(* Model of pyod.models.sampling.Sampling: the constructor, fit and        *)
(* decision_function, with the instance attributes as the state.           *)
(*                                                                         *)
(* Numbers: feature values and distances are integers (the metrics         *)
(* modelled, manhattan and chebyshev, are integer valued on integer data). *)
(* A float subset_size is a dyadic rational num/den, for which the float   *)
(* product subset_size * n_samples is exact.  The random generator is a    *)
(* small linear congruential generator driving numpy's shuffle.            *)
(***************************************************************************)
EXTENDS Integers, Sequences, FiniteSets, TLC

\* ----------------------------------------------------------------- bounds
MaxN == 3
MaxFits == 2
RngMod == 8

Dims == {1, 2}
Seeds == {0, 1}

\* contamination=0.1, the constructor's default
ContamNum == 1
ContamDen == 10

\* ------------------------------------------------------------- input sets
IntSize(k) == [kind |-> "int", num |-> k, den |-> 1]
FloatSize(a, b) == [kind |-> "float", num |-> a, den |-> b]

\* subset_size arguments: ints -1 .. MaxN+1, floats 0.0, 0.5, 1.0, 1.5
SubsetSizes ==
    {IntSize(k) : k \in -1 .. MaxN + 1} \cup {FloatSize(a, 2) : a \in 0 .. 3}

\* names DistanceMetric.get_metric resolves, and one it does not ("cosine"
\* is listed in the class docstring but is no DistanceMetric)
KnownMetrics == {"manhattan", "chebyshev"}
Metrics == KnownMetrics \cup {"cosine"}

\* metric_params: None, or a non-empty dict
MetricParams == {"None", "dict"}

\* A data set: n rows of d features; row i has the features i, 2i, ...
MkData(n, d) == [i \in 1 .. n |-> [k \in 1 .. d |-> i * k]]
DataSets == {MkData(n, d) : n \in 1 .. MaxN, d \in Dims}

NRows(X) == Len(X)
NCols(X) == Len(X[1])

\* ------------------------------------------------------------------ state
VARIABLES
    obj,      \* the attributes of the Sampling instance
    ctor,     \* the arguments the instance was constructed with
    last,     \* the latest call on the instance and its outcome
    lastFit,  \* the latest fit call that returned, with its inputs and results
    nfit,     \* fit calls so far; names the metric object a fit resolves
    hist,     \* of this instance: fits that returned, _process_decision_scores calls
    fpc,      \* position of a fit running step by step
    fX,       \* its argument
    rpc,      \* position of a decision_function running step by step
    rX,       \* its argument
    rdist,    \* the self.dist it loaded
    rsubset,  \* the self.subset it loaded
    pairs     \* the (subset, dist) pairs fit calls have completed with

vars == <<obj, ctor, last, lastFit, nfit, hist, fpc, fX, rpc, rX, rdist, rsubset, pairs>>
seqVars == <<fpc, fX, rpc, rX, rdist, rsubset, pairs>>

NoSubset == [isNone |-> TRUE, dim |-> 0, rows |-> <<>>]
NoDist == [isNone |-> TRUE, metric |-> "", id |-> 0]
NoScores == [isNone |-> TRUE, v |-> <<>>]
Absent == [present |-> FALSE, v |-> <<>>]
AbsentNum == [present |-> FALSE, v |-> 0]

\* --------------------------------------------------------------- __init__
\* check_random_state(seed) builds a generator seeded with the int.
check_random_state(seed) == seed % RngMod

SamplingInit(args) ==
    [subset_size |-> args.subset_size,
     metric |-> args.metric,
     metric_params |-> args.metric_params,
     random_state |-> check_random_state(args.random_state),
     dist |-> NoDist,
     subset |-> NoSubset,
     decision_scores_ |-> NoScores,
     threshold_ |-> AbsentNum,
     labels_ |-> Absent]

CtorArgs ==
    [subset_size : SubsetSizes, metric : Metrics,
     metric_params : MetricParams, random_state : Seeds]

\* ------------------------------------------------- random_state.choice
rng_next(s) == (5 * s + 3) % RngMod

\* a draw in 0 .. max
random_interval(s, max) ==
    [rng |-> rng_next(s), v |-> rng_next(s) % (max + 1)]

\* numpy's shuffle: for i = n-1 down to 1, swap x[i] with x[random_interval(i)]
RECURSIVE shuffle(_, _, _)
shuffle(arr, s, i) ==
    IF i < 1 THEN [arr |-> arr, rng |-> s]
    ELSE LET r == random_interval(s, i)
             sw == [arr EXCEPT ![i + 1] = arr[r.v + 1], ![r.v + 1] = arr[i + 1]]
         IN shuffle(sw, r.rng, i - 1)

permutation(s, n) == shuffle([k \in 1 .. n |-> k - 1], s, n - 1)

\* choice drawing each index on its own, as with replace=True
RECURSIVE draws(_, _, _)
draws(s, n, size) ==
    IF size <= 0 THEN [idx |-> <<>>, rng |-> s]
    ELSE LET r == random_interval(s, n - 1)
             rest == draws(r.rng, n, size - 1)
         IN [idx |-> <<r.v>> \o rest.idx, rng |-> rest.rng]

choice_with_replacement(s, n, size) == draws(s, n, size)

\* choice(n, size, replace=False) is permutation(n)[:size]
choice(s, n, size) ==
    LET p == permutation(s, n)
    IN [idx |-> SubSeq(p.arr, 1, size), rng |-> p.rng]

\* ------------------------------------------------------- distance metric
Abs(x) == IF x < 0 THEN -x ELSE x

RECURSIVE SumTo(_, _)
SumTo(f, k) == IF k = 0 THEN 0 ELSE f[k] + SumTo(f, k - 1)

MaxOf(S) == CHOOSE m \in S : \A x \in S : x <= m
MinOf(S) == CHOOSE m \in S : \A x \in S : m <= x

metric_dist(name, a, b) ==
    LET diff == [k \in 1 .. Len(a) |-> Abs(a[k] - b[k])]
    IN IF name = "manhattan" THEN SumTo(diff, Len(diff))
       ELSE MaxOf({diff[k] : k \in 1 .. Len(diff)})

\* DistanceMetric.get_metric(self.metric) / get_metric(self.metric, *params):
\* an unknown name is a ValueError; a non-empty metric_params unpacks into
\* extra positional arguments, which get_metric does not take (TypeError).
get_metric(metric, params, id) ==
    IF params = "None"
    THEN IF metric \in KnownMetrics
         THEN [exc |-> "none", dist |-> [isNone |-> FALSE, metric |-> metric, id |-> id]]
         ELSE [exc |-> "ValueError", dist |-> NoDist]
    ELSE [exc |-> "TypeError", dist |-> NoDist]

\* pairwise without the feature-count check: the distance is taken over the
\* features both rows have
min_pairwise_no_dim_check(dist, X, subset) ==
    IF Len(subset.rows) = 0
    THEN [exc |-> "ValueError", scores |-> NoScores]
    ELSE LET d == IF NCols(X) < subset.dim THEN NCols(X) ELSE subset.dim
             cut(row) == [k \in 1 .. d |-> row[k]]
         IN [exc |-> "none",
             scores |-> [isNone |-> FALSE,
                         v |-> [i \in 1 .. NRows(X) |->
                                  MinOf({metric_dist(dist.metric, cut(X[i]), cut(subset.rows[j])) :
                                           j \in 1 .. Len(subset.rows)})]]]

\* dist.pairwise(X, subset) followed by np.min(pair_dist, axis=1).
\* Different feature counts: ValueError.  No reference row: ValueError (the
\* minimum over an empty axis has no identity).
min_pairwise(dist, X, subset) ==
    IF NCols(X) # subset.dim \/ Len(subset.rows) = 0
    THEN [exc |-> "ValueError", scores |-> NoScores]
    ELSE [exc |-> "none",
          scores |-> [isNone |-> FALSE,
                      v |-> [i \in 1 .. NRows(X) |->
                               MinOf({metric_dist(dist.metric, X[i], subset.rows[j]) :
                                        j \in 1 .. Len(subset.rows)})]]]

\* ------------------------------------------- _process_decision_scores
\* threshold_: the value at the contamination quantile from the top of the
\* sorted scores; labels_: 1 for the scores at or above it.
threshold_of(scores) ==
    LET n == Len(scores)
        k == (ContamNum * n) \div ContamDen
        above(v) == Cardinality({i \in 1 .. n : scores[i] > v})
        atOrAbove(v) == Cardinality({i \in 1 .. n : scores[i] >= v})
    IN CHOOSE v \in {scores[i] : i \in 1 .. n} : above(v) <= k /\ k < atOrAbove(v)

labels_of(scores, t) ==
    [i \in 1 .. Len(scores) |-> IF scores[i] >= t THEN 1 ELSE 0]

process_decision_scores(o) ==
    LET t == threshold_of(o.decision_scores_.v)
    IN [o EXCEPT !.threshold_ = [present |-> TRUE, v |-> t],
                 !.labels_ = [present |-> TRUE, v |-> labels_of(o.decision_scores_.v, t)]]

\* -------------------------------------------------------------------- fit
\* lines 128-140: the range checks, and the float to int conversion, which
\* is stored back into self.subset_size
fit_check_size(o, X) ==
    LET n == NRows(X)
        sz == o.subset_size
    IN IF sz.kind = "int" /\ ~(0 <= sz.num /\ sz.num <= n)
       THEN [exc |-> "ValueError", o |-> o]
       ELSE IF sz.kind = "float"
            THEN IF 0 < sz.num /\ sz.num <= sz.den
                 THEN [exc |-> "none",
                       o |-> [o EXCEPT !.subset_size = IntSize((sz.num * n) \div sz.den)]]
                 ELSE [exc |-> "ValueError", o |-> o]
            ELSE [exc |-> "none", o |-> o]

\* lines 142-147: draw the indices, store the rows
fit_sample(o, X) ==
    LET c == choice(o.random_state, NRows(X), o.subset_size.num)
    IN [o EXCEPT !.random_state = c.rng,
                 !.subset = [isNone |-> FALSE, dim |-> NCols(X),
                             rows |-> [j \in 1 .. Len(c.idx) |-> X[c.idx[j] + 1]]]]

\* lines 149-152: resolve the metric, store it
fit_resolve(o, id) ==
    LET m == get_metric(o.metric, o.metric_params, id)
    IN IF m.exc # "none" THEN [exc |-> m.exc, o |-> o]
       ELSE [exc |-> "none", o |-> [o EXCEPT !.dist = m.dist]]

\* lines 154-157: the training scores, stored
fit_score(o, X) ==
    LET r == min_pairwise(o.dist, X, o.subset)
    IN IF r.exc # "none" THEN [exc |-> r.exc, o |-> o]
       ELSE [exc |-> "none", o |-> [o EXCEPT !.decision_scores_ = r.scores]]

FitOutcome(o, exc, at, size, process) ==
    [o |-> o, exc |-> exc, at |-> at, size |-> size, process |-> process]

\* fit returning without the call of _process_decision_scores
fit_no_process(o, X, id) ==
    LET c == fit_check_size(o, X) IN
    IF c.exc # "none" THEN FitOutcome(c.o, c.exc, "subset_size", -1, 0)
    ELSE
    LET s == fit_sample(c.o, X)
        m == fit_resolve(s, id)
    IN
    IF m.exc # "none" THEN FitOutcome(m.o, m.exc, "get_metric", s.subset_size.num, 0)
    ELSE
    LET p == fit_score(m.o, X) IN
    IF p.exc # "none" THEN FitOutcome(p.o, p.exc, "pairwise", s.subset_size.num, 0)
    ELSE FitOutcome(p.o, "none", "", s.subset_size.num, 0)

\* the whole of fit: where it raises, the instance it leaves, the subset size
\* it resolved (-1 when it raised before) and how often it called
\* _process_decision_scores
fit(o, X, id) ==
    LET c == fit_check_size(o, X) IN
    IF c.exc # "none" THEN FitOutcome(c.o, c.exc, "subset_size", -1, 0)
    ELSE
    LET s == fit_sample(c.o, X)
        m == fit_resolve(s, id)
    IN
    IF m.exc # "none" THEN FitOutcome(m.o, m.exc, "get_metric", s.subset_size.num, 0)
    ELSE
    LET p == fit_score(m.o, X) IN
    IF p.exc # "none" THEN FitOutcome(p.o, p.exc, "pairwise", s.subset_size.num, 0)
    ELSE FitOutcome(process_decision_scores(p.o), "none", "", s.subset_size.num, 1)

\* ------------------------------------------------------ decision_function
\* check_is_fitted asked for decision_scores_ alone, which __init__ sets
check_is_fitted_scores_only(o) == o.decision_scores_.isNone \/ ~o.decision_scores_.isNone

\* check_is_fitted(self, ["decision_scores_", "threshold_", "labels_"]): every
\* named attribute exists.  decision_scores_ exists from construction (None).
check_is_fitted(o) == o.threshold_.present /\ o.labels_.present

DfOutcome(o, exc, at, scores) == [o |-> o, exc |-> exc, at |-> at, scores |-> scores]

\* decision_function keeping its scores in decision_scores_
decision_function_stores(o, X) ==
    IF ~(o.threshold_.present /\ o.labels_.present)
    THEN DfOutcome(o, "NotFittedError", "check_is_fitted", NoScores)
    ELSE LET r == min_pairwise(o.dist, X, o.subset)
         IN IF r.exc # "none" THEN DfOutcome(o, r.exc, "pairwise", NoScores)
            ELSE DfOutcome([o EXCEPT !.decision_scores_ = r.scores], "none", "", r.scores)

decision_function(o, X) ==
    IF ~check_is_fitted(o) THEN DfOutcome(o, "NotFittedError", "check_is_fitted", NoScores)
    ELSE LET r == min_pairwise(o.dist, X, o.subset)
         IN IF r.exc # "none" THEN DfOutcome(o, r.exc, "pairwise", NoScores)
            ELSE DfOutcome(o, "none", "", r.scores)

\* ---------------------------------------------------------------- actions
NoCall ==
    [op |-> "init", X |-> <<>>, exc |-> "none", at |-> "", scores |-> NoScores,
     size |-> -1, process |-> 0, n |-> 0]

NoFit ==
    [any |-> FALSE, seed |-> 0, subset_size |-> IntSize(0), metric |-> "",
     metric_params |-> "", X |-> <<>>, subset |-> NoSubset, scores |-> NoScores]

NoHist == [okFits |-> 0, processCalls |-> 0]

Init ==
    /\ ctor \in CtorArgs
    /\ obj = SamplingInit(ctor)
    /\ last = NoCall
    /\ lastFit = NoFit
    /\ nfit = 0
    /\ hist = NoHist
    /\ fpc = "idle" /\ fX = <<>>
    /\ rpc = "idle" /\ rX = <<>> /\ rdist = NoDist /\ rsubset = NoSubset
    /\ pairs = {}

\* another instance, constructed with the same arguments
Construct ==
    /\ obj' = SamplingInit(ctor)
    /\ last' = NoCall
    /\ hist' = NoHist
    /\ UNCHANGED <<ctor, lastFit, nfit>>
    /\ UNCHANGED seqVars

Fit ==
    \E X \in DataSets :
        /\ nfit < MaxFits
        /\ LET r == fit(obj, X, nfit + 1)
           IN /\ obj' = r.o
              /\ last' = [op |-> "fit", X |-> X, exc |-> r.exc, at |-> r.at,
                          scores |-> NoScores, size |-> r.size,
                          process |-> r.process, n |-> nfit + 1]
              /\ lastFit' = IF r.exc = "none"
                            THEN [any |-> TRUE, seed |-> ctor.random_state,
                                  subset_size |-> ctor.subset_size,
                                  metric |-> ctor.metric,
                                  metric_params |-> ctor.metric_params,
                                  X |-> X, subset |-> r.o.subset,
                                  scores |-> r.o.decision_scores_]
                            ELSE lastFit
              /\ hist' = [okFits |-> hist.okFits + (IF r.exc = "none" THEN 1 ELSE 0),
                          processCalls |-> hist.processCalls + r.process]
        /\ nfit' = nfit + 1
        /\ UNCHANGED ctor
        /\ UNCHANGED seqVars

DecisionFunction ==
    \E X \in DataSets :
        LET r == decision_function(obj, X)
        IN /\ obj' = r.o
           /\ last' = [op |-> "decision_function", X |-> X, exc |-> r.exc,
                       at |-> r.at, scores |-> r.scores, size |-> -1,
                       process |-> 0, n |-> nfit]
           /\ UNCHANGED <<ctor, lastFit, nfit, hist>>
           /\ UNCHANGED seqVars

Next == Construct \/ Fit \/ DecisionFunction

Spec == Init /\ [][Next]_vars

\* ------------------------------------------- the calls, statement by statement
\* fit and decision_function on two threads: fit stores self.subset_size,
\* self.subset, self.dist, self.decision_scores_ and threshold_/labels_ one
\* after the other; decision_function loads self.dist, then self.subset.
FitBegin ==
    \E X \in DataSets :
        /\ fpc = "idle"
        /\ nfit < MaxFits
        /\ nfit' = nfit + 1
        /\ LET c == fit_check_size(obj, X)
           IN /\ obj' = c.o
              /\ IF c.exc = "none"
                 THEN fpc' = "sample" /\ fX' = X
                 ELSE fpc' = "idle" /\ fX' = <<>>
        /\ UNCHANGED <<ctor, last, lastFit, hist, rpc, rX, rdist, rsubset, pairs>>

FitSample ==
    /\ fpc = "sample"
    /\ obj' = fit_sample(obj, fX)
    /\ fpc' = "resolve"
    /\ UNCHANGED <<ctor, last, lastFit, nfit, hist, fX, rpc, rX, rdist, rsubset, pairs>>

FitResolve ==
    /\ fpc = "resolve"
    /\ LET m == fit_resolve(obj, nfit)
       IN /\ obj' = m.o
          /\ IF m.exc = "none"
             THEN /\ fpc' = "score" /\ fX' = fX
                  /\ pairs' = pairs \cup {<<m.o.subset, m.o.dist>>}
             ELSE /\ fpc' = "idle" /\ fX' = <<>>
                  /\ pairs' = pairs
    /\ UNCHANGED <<ctor, last, lastFit, nfit, hist, rpc, rX, rdist, rsubset>>

FitScore ==
    /\ fpc = "score"
    /\ LET p == fit_score(obj, fX)
       IN /\ obj' = p.o
          /\ IF p.exc = "none"
             THEN fpc' = "process" /\ fX' = fX
             ELSE fpc' = "idle" /\ fX' = <<>>
    /\ UNCHANGED <<ctor, last, lastFit, nfit, hist, rpc, rX, rdist, rsubset, pairs>>

FitProcess ==
    /\ fpc = "process"
    /\ obj' = process_decision_scores(obj)
    /\ fpc' = "idle" /\ fX' = <<>>
    /\ hist' = [okFits |-> hist.okFits + 1, processCalls |-> hist.processCalls + 1]
    /\ UNCHANGED <<ctor, last, lastFit, nfit, rpc, rX, rdist, rsubset, pairs>>

\* check_is_fitted; when it raises the call is over
DfBegin ==
    \E X \in DataSets :
        /\ rpc = "idle"
        /\ IF check_is_fitted(obj)
           THEN rpc' = "loadDist" /\ rX' = X
           ELSE rpc' = "idle" /\ rX' = <<>>
        /\ UNCHANGED <<obj, ctor, last, lastFit, nfit, hist, fpc, fX, rdist, rsubset, pairs>>

DfLoadDist ==
    /\ rpc = "loadDist"
    /\ rdist' = obj.dist
    /\ rpc' = "loadSubset"
    /\ UNCHANGED <<obj, ctor, last, lastFit, nfit, hist, fpc, fX, rX, rsubset, pairs>>

DfLoadSubset ==
    /\ rpc = "loadSubset"
    /\ rsubset' = obj.subset
    /\ rpc' = "compute"
    /\ UNCHANGED <<obj, ctor, last, lastFit, nfit, hist, fpc, fX, rX, rdist, pairs>>

\* what the call returns, from the attributes it loaded
DfResult == min_pairwise(rdist, rX, rsubset)

\* pairwise and min on the loaded values; the call returns
DfCompute ==
    /\ rpc = "compute"
    /\ rpc' = "idle" /\ rX' = <<>> /\ rdist' = NoDist /\ rsubset' = NoSubset
    /\ UNCHANGED <<obj, ctor, last, lastFit, nfit, hist, fpc, fX, pairs>>

NextConc ==
    \/ FitBegin \/ FitSample \/ FitResolve \/ FitScore \/ FitProcess
    \/ DfBegin \/ DfLoadDist \/ DfLoadSubset \/ DfCompute

SpecConc == Init /\ [][NextConc]_vars

\* ------------------------------------------------------------------ claims
\* the instance state the claims speak of
StoredState(o) ==
    <<o.subset, o.dist, o.subset_size, o.random_state, o.decision_scores_,
      o.threshold_, o.labels_>>

RowSet(rows) == {rows[j] : j \in 1 .. Len(rows)}

\* a fit call that raised on its subset_size or its metric configuration
InvalidParameter(c) ==
    c.op = "fit" /\ c.exc # "none" /\ c.at \in {"subset_size", "get_metric"}

ValidFraction(sz) == sz.kind = "float" /\ 0 < sz.num /\ sz.num <= sz.den

FloorOf(sz, n) == (sz.num * n) \div sz.den

\* C1: a fit call that fails with an invalid-parameter error (subset_size out
\* of range, or a metric / metric_params that does not resolve) leaves subset,
\* dist, subset_size, the random source, decision_scores_, threshold_ and
\* labels_ as they were before the call.
C1_InvalidFitChangesNothing ==
    [][(nfit' = nfit + 1 /\ InvalidParameter(last'))
         => StoredState(obj') = StoredState(obj)]_vars

\* C2: two fit calls with the same seed, subset_size, metric configuration
\* and data (on one instance, or on two instances constructed alike) produce
\* the same reference subset and the same training scores.
C2_SameSeedSameFit ==
    [][(nfit' = nfit + 1 /\ last'.exc = "none" /\ lastFit.any
        /\ lastFit'.seed = lastFit.seed
        /\ lastFit'.subset_size = lastFit.subset_size
        /\ lastFit'.metric = lastFit.metric
        /\ lastFit'.metric_params = lastFit.metric_params
        /\ lastFit'.X = lastFit.X)
         => (lastFit'.subset = lastFit.subset /\ lastFit'.scores = lastFit.scores)]_vars

\* C3: decision_function on an instance on which no fit has returned (fresh,
\* or after fit calls that all raised) raises the not-fitted error, returns no
\* scores and changes no stored state.
C3_UnfittedScoreRaises ==
    [][(last'.op = "decision_function" /\ hist.okFits = 0)
         => (/\ last'.exc = "NotFittedError"
             /\ last'.scores.isNone
             /\ obj' = obj)]_vars

C3_Witness ==
    /\ last.op = "decision_function" /\ last.exc = "NotFittedError"
    /\ hist.okFits = 0 /\ nfit > 0
    /\ ~obj.subset.isNone

\* C4: on a fitted instance whose subset has D features, decision_function on
\* points with another feature count raises at the distance computation,
\* returns no scores and changes nothing, so every later call with D-feature
\* points returns what it would have returned before.
C4_DimensionMismatchRaises ==
    [][(last'.op = "decision_function" /\ hist.okFits > 0
        /\ NCols(last'.X) # obj.subset.dim)
         => (/\ last'.exc = "ValueError" /\ last'.at = "pairwise"
             /\ last'.scores.isNone
             /\ StoredState(obj') = StoredState(obj)
             /\ \A Y \in DataSets :
                    NCols(Y) = obj.subset.dim
                      => decision_function(obj', Y).scores = decision_function(obj, Y).scores)]_vars

C4_Witness ==
    /\ last.op = "decision_function" /\ hist.okFits > 0
    /\ NCols(last.X) # obj.subset.dim
    /\ last.exc = "ValueError"

\* C5: on a fitted instance decision_function changes none of subset, dist,
\* subset_size, the random source, decision_scores_, threshold_, labels_, and
\* a call repeated with the same points, no fit in between, returns the same.
C5_ScoreReadOnlyRepeatable ==
    [][(last'.op = "decision_function" /\ hist.okFits > 0)
         => (/\ obj' = obj
             /\ (last.op = "decision_function" /\ last.X = last'.X)
                  => (last'.exc = last.exc /\ last'.scores = last.scores))]_vars

C5_Witness ==
    /\ last.op = "decision_function" /\ hist.okFits > 0
    /\ last.exc = "none"
    /\ \E i \in 1 .. Len(last.scores.v) : last.scores.v[i] > 0

\* C6: an instance constructed with a fraction f in (0.0, 1.0] draws, in
\* every fit call, the first and every later one, floor(f * N) rows, N the
\* row count of the data of that call.
C6_FractionResolvedPerFit ==
    [][(nfit' = nfit + 1 /\ ValidFraction(ctor.subset_size))
         => (/\ ~obj'.subset.isNone
             /\ Len(obj'.subset.rows) = FloorOf(ctor.subset_size, NRows(last'.X)))]_vars

\* C7: with a metric for which d(x, x) = 0 <= d, every point that is a row of
\* the stored subset scores 0, in the training scores of fit and in the result
\* of decision_function; and fit with the integer subset_size N returns,
\* with every row in the subset exactly once and all training scores 0.
C7_SubsetMembersScoreZero ==
    /\ (last.op = "fit" /\ last.exc = "none")
         => \A i \in 1 .. NRows(last.X) :
                last.X[i] \in RowSet(obj.subset.rows) => obj.decision_scores_.v[i] = 0
    /\ (last.op = "decision_function" /\ last.exc = "none")
         => \A i \in 1 .. NRows(last.X) :
                last.X[i] \in RowSet(obj.subset.rows) => last.scores.v[i] = 0
    /\ (last.op = "fit" /\ ctor.subset_size = IntSize(NRows(last.X))
        /\ ctor.metric \in KnownMetrics /\ ctor.metric_params = "None")
         => (/\ last.exc = "none"
             /\ Len(obj.subset.rows) = NRows(last.X)
             /\ RowSet(obj.subset.rows) = RowSet(last.X)
             /\ \A i \in 1 .. NRows(last.X) : obj.decision_scores_.v[i] = 0)

C7_Witness ==
    /\ last.op = "fit" /\ last.exc = "none"
    /\ ctor.subset_size = IntSize(NRows(last.X))
    /\ NRows(last.X) >= 3
    /\ obj.subset.rows # last.X

\* C8: a fit call whose subset size resolves to 0 is either rejected as an
\* invalid parameter before sampling, with no state change, or returns with
\* the instance fitted and a training score vector of length N.
C8_ZeroSubsetDecided ==
    [][(nfit' = nfit + 1
        /\ \/ obj.subset_size = IntSize(0)
           \/ (ValidFraction(obj.subset_size)
               /\ FloorOf(obj.subset_size, NRows(last'.X)) = 0))
         => (\/ (/\ last'.exc # "none" /\ last'.at = "subset_size"
                 /\ StoredState(obj') = StoredState(obj))
             \/ (/\ last'.exc = "none"
                 /\ obj'.threshold_.present /\ obj'.labels_.present
                 /\ ~obj'.decision_scores_.isNone
                 /\ Len(obj'.decision_scores_.v) = NRows(last'.X)))]_vars

\* C9: with fit running on a fitted instance next to decision_function
\* calls, every decision_function call works on a (subset, dist) pair that
\* one fit call produced, never on the subset of one fit with the metric of
\* another.
C9_PairReplacedAtomically ==
    rpc = "compute" => <<rsubset, rdist>> \in pairs

\* C10: _process_decision_scores is called once in every fit call that
\* returns, after the scores of that call are stored, and in no fit call that
\* raises and in no decision_function call; threshold_ and labels_ are those
\* of the stored decision_scores_.
C10_ProcessOncePerFit ==
    /\ hist.processCalls = hist.okFits
    /\ last.op = "fit" => last.process = (IF last.exc = "none" THEN 1 ELSE 0)
    /\ last.op = "decision_function" => last.process = 0
    /\ (obj.threshold_.present \/ obj.labels_.present) <=> hist.okFits > 0
    /\ hist.okFits > 0
         => (/\ ~obj.decision_scores_.isNone
             /\ obj.threshold_.v = threshold_of(obj.decision_scores_.v)
             /\ obj.labels_.v = labels_of(obj.decision_scores_.v, obj.threshold_.v))

C10_Witness ==
    /\ hist.okFits >= 2 /\ hist.processCalls >= 2
    /\ last.op = "decision_function" /\ last.exc = "none"

====
